---- MODULE Spec2Model ----
(***************************************************************************)
(* Model of gh-user-status (main.go): the set / clear / get subcommands,   *)
(* the external tool invoker gh() / ghWithInput(), the scope-recovery      *)
(* protocol of runSet and the JSON decoding of the three responses.        *)
(*                                                                         *)
(* A Go string is a sequence of one-token strings (a token is a character  *)
(* or a fixed fragment of a format string), so that strings.Contains,      *)
(* strings.Split and fmt.Sprintf are computed, not assumed.                *)
(***************************************************************************)
EXTENDS Integers, Sequences, FiniteSets, TLC

\* ------------------------------------------------------------------ bounds
MaxLoginLen == 5
MaxNow == 1
MaxExpiry == 1

\* ------------------------------------------------------- program constants
\* memberStatuses(first: 100)
PageSize == 100

\* ---------------------------------------------------------------- strings
Chars == {"a", "/"}

RECURSIVE StringsUpTo(_)
StringsUpTo(n) ==
  IF n = 0 THEN {<<>>}
  ELSE LET shorter == StringsUpTo(n - 1)
       IN  shorter \cup {Append(s, c) : s \in {t \in shorter : Len(t) = n - 1}, c \in Chars}

\* variant: only the first token of substr is looked for
ContainsFirstToken(s, substr) == \E i \in 1..Len(s) : s[i] = substr[1]

\* strings.Contains(s, substr)
Contains(s, substr) ==
  \E i \in 1..(Len(s) + 1) :
     /\ i + Len(substr) - 1 <= Len(s)
     /\ \A j \in 1..Len(substr) : s[i + j - 1] = substr[j]

\* strings.Split(s, sep) for a one-character separator: cur is the part
\* being collected, acc the parts already closed
RECURSIVE SplitFrom(_, _, _, _, _)
SplitFrom(s, sep, i, cur, acc) ==
  IF i > Len(s) THEN Append(acc, cur)
  ELSE IF s[i] = sep THEN SplitFrom(s, sep, i + 1, <<>>, Append(acc, cur))
  ELSE SplitFrom(s, sep, i + 1, Append(cur, s[i]), acc)

Split(s, sep) == SplitFrom(s, sep, 1, <<>>, <<>>)

\* decimal digits of a natural number, most significant first
Digit(d) == CASE d = 0 -> "0" [] d = 1 -> "1" [] d = 2 -> "2" [] d = 3 -> "3"
              [] d = 4 -> "4" [] d = 5 -> "5" [] d = 6 -> "6" [] d = 7 -> "7"
              [] d = 8 -> "8" [] d = 9 -> "9"

RECURSIVE Digits(_)
Digits(n) == IF n < 10 THEN <<Digit(n)>> ELSE Append(Digits(n \div 10), Digit(n % 10))

\* t.Format("2006-01-02T15:04:05-0700"): the instant t (in seconds) written
\* out; the layout's fixed punctuation is the leading token
Format(t) == <<"T">> \o Digits(t)

\* the marker tested at runSet
ScopeMarker == <<"one of the following scopes: ", "[", "'user'", "]">>

\* -------------------------------------------------------------------- JSON
\* A JSON value: kind, str (payload of a string), mem (members of an object,
\* a function from keys; items of an array, a sequence).  "invalid" stands
\* for bytes that are not JSON at all (empty output included).
JNull == [kind |-> "null", str |-> <<>>, mem |-> <<>>]
JInvalid == [kind |-> "invalid", str |-> <<>>, mem |-> <<>>]
JNum == [kind |-> "num", str |-> <<>>, mem |-> <<>>]
JStr(s) == [kind |-> "str", str |-> s, mem |-> <<>>]
JBool(b) == [kind |-> IF b THEN "true" ELSE "false", str |-> <<>>, mem |-> <<>>]
JObj(m) == [kind |-> "obj", str |-> <<>>, mem |-> m]
JArr(items) == [kind |-> "arr", str |-> <<>>, mem |-> items]
JEmptyObj == [kind |-> "obj", str |-> <<>>, mem |-> <<>>]

\* member k of v as encoding/json sees it when filling a struct: an absent
\* member and a JSON null both leave the field at its zero value
Member(v, k) ==
  IF v.kind = "obj" THEN (IF k \in DOMAIN v.mem THEN v.mem[k] ELSE JNull)
  ELSE JNull

\* a struct destination accepts an object or null, anything else is an
\* UnmarshalTypeError
StructOK(v) == v.kind \in {"obj", "null"}
StringOK(v) == v.kind \in {"str", "null"}
BoolOK(v) == v.kind \in {"true", "false", "null"}

ZeroStatus == [IndicatesLimitedAvailability |-> FALSE, Message |-> <<>>, Emoji |-> <<>>]

\* json.Unmarshal into type status
DecodeStatus(v) ==
  LET lim == Member(v, "indicatesLimitedAvailability")
      msg == Member(v, "message")
      emo == Member(v, "emoji")
  IN  [ok  |-> StructOK(v) /\ BoolOK(lim) /\ StringOK(msg) /\ StringOK(emo),
       val |-> [IndicatesLimitedAvailability |-> lim.kind = "true",
                Message |-> IF msg.kind = "str" THEN msg.str ELSE <<>>,
                Emoji |-> IF emo.kind = "str" THEN emo.str ELSE <<>>]]

\* json.Unmarshal into type memberStatus
DecodeMemberStatus(v) ==
  LET s == DecodeStatus(v)
      usr == Member(v, "user")
      lgn == Member(usr, "login")
  IN  [ok  |-> s.ok /\ StructOK(usr) /\ StringOK(lgn),
       val |-> [IndicatesLimitedAvailability |-> s.val.IndicatesLimitedAvailability,
                Message |-> s.val.Message,
                Emoji |-> s.val.Emoji,
                Login |-> IF lgn.kind = "str" THEN lgn.str ELSE <<>>]]

\* json.Unmarshal into a map[string]T: null leaves the map as it is (empty),
\* an object stores one entry per member, a null member included
MapOK(v) == v.kind \in {"obj", "null"}
MapKeys(v) == IF v.kind = "obj" THEN DOMAIN v.mem ELSE {}

\* map[string]status
DecodeStatusMap(v) ==
  [ok  |-> MapOK(v) /\ \A k \in MapKeys(v) : DecodeStatus(v.mem[k]).ok,
   val |-> [k \in MapKeys(v) |-> DecodeStatus(v.mem[k]).val]]

\* map[string]map[string]status
DecodeStatusMap2(v) ==
  [ok  |-> MapOK(v) /\ \A k \in MapKeys(v) : DecodeStatusMap(v.mem[k]).ok,
   val |-> [k \in MapKeys(v) |-> DecodeStatusMap(v.mem[k]).val]]

\* map[string]map[string]map[string]status, the resp of apiStatus
DecodeStatusMap3(v) ==
  [ok  |-> MapOK(v) /\ \A k \in MapKeys(v) : DecodeStatusMap2(v.mem[k]).ok,
   val |-> [k \in MapKeys(v) |-> DecodeStatusMap2(v.mem[k]).val]]

\* m[k] on a Go map: the zero value when the key is absent (a nil map has
\* no keys)
MapIndex(m, k, zero) == IF k \in DOMAIN m THEN m[k] ELSE zero
MapHas(m, k) == k \in DOMAIN m

\* the response struct of runSet: Data.ChangeUserStatus.Status
DecodeSetResponse(doc) ==
  LET data == Member(doc, "data")
      chg  == Member(data, "changeUserStatus")
      st   == Member(chg, "status")
  IN  [ok  |-> /\ doc.kind # "invalid"
               /\ StructOK(doc) /\ StructOK(data) /\ StructOK(chg)
               /\ DecodeStatus(st).ok,
       val |-> DecodeStatus(st).val]

\* the response struct of apiTeam:
\* Data.Organization.Team.MemberStatuses.Nodes []memberStatus
DecodeTeamResponse(doc) ==
  LET data  == Member(doc, "data")
      org   == Member(data, "organization")
      team  == Member(org, "team")
      ms    == Member(team, "memberStatuses")
      nodes == Member(ms, "nodes")
      n     == IF nodes.kind = "arr" THEN Len(nodes.mem) ELSE 0
  IN  [ok  |-> /\ doc.kind # "invalid"
               /\ StructOK(doc) /\ StructOK(data) /\ StructOK(org)
               /\ StructOK(team) /\ StructOK(ms)
               /\ nodes.kind \in {"arr", "null"}
               /\ \A i \in 1..n : DecodeMemberStatus(nodes.mem[i]).ok,
       val |-> [i \in 1..n |-> DecodeMemberStatus(nodes.mem[i]).val]]

\* ------------------------------------------------------------ input sets
Logins == StringsUpTo(MaxLoginLen)
Nows == 0..MaxNow
\* a time.Duration from the --expiry flag, negative values included
Expiries == (-1)..MaxExpiry
Aliases == {<<>>, <<"rocket">>, <<"x">>}
Messages == {<<>>, <<"hi">>}
Echoes == {<<>>, <<":", "rocket", ":">>, <<":", "x", ":">>, <<"rocket">>}

\* what the subprocess may leave on its standard error
MarkerStderr ==
  <<"gh: ", "one of the following scopes: ", "[", "'user'", "]", "\n">>

Stderrs ==
  { <<>>,
    <<"HTTP 401">>,
    <<"gh: ", "one of the following scopes: ", "[", "'repo'", "]">>,
    MarkerStderr }

\* responses to the changeUserStatus mutation
StatusObj(e) == JObj([message |-> JStr(<<"hi">>), emoji |-> e])

SetDocs ==
  { JInvalid, JEmptyObj, JStr(<<"x">>),
    JObj([data |-> JNull]),
    JObj([data |-> JObj([changeUserStatus |-> JNull])]),
    JObj([data |-> JObj([changeUserStatus |-> JObj([status |-> JNull])])]),
    JObj([data |-> JObj([changeUserStatus |-> JObj([status |-> StatusObj(JNum)])])]) }
  \cup
  { JObj([data |-> JObj([changeUserStatus |-> JObj([status |-> StatusObj(JStr(e))])])]) :
      e \in Echoes }

\* ----------------------------------------------------------------- invoker
\* One run of the external tool as the environment decides it: whether the
\* binary is found, how the process ends, and what it wrote.
GhOutcomes(docs) ==
  { [found |-> FALSE, exit |-> "none", sout |-> JInvalid, eout |-> <<>>] }
  \cup { [found |-> TRUE, exit |-> "spawnfail", sout |-> JInvalid, eout |-> <<>>] }
  \cup { [found |-> TRUE, exit |-> "nonzero", sout |-> d, eout |-> e] :
           d \in {JInvalid, JEmptyObj}, e \in Stderrs }
  \cup { [found |-> TRUE, exit |-> "zero", sout |-> d, eout |-> e] :
           d \in docs, e \in {<<>>, MarkerStderr} }

\* gh(args...): STDOUT, STDERR and the error
gh(o) ==
  [sout |-> o.sout,
   eout |-> o.eout,
   err  |-> IF ~o.found THEN "could not find gh"
            ELSE IF o.exit # "zero" THEN "failed to run gh"
            ELSE "nil"]

\* ghWithInput(args...): the error only, nothing is captured
GhInputOutcomes ==
  { [found |-> FALSE, exit |-> "none"],
    [found |-> TRUE, exit |-> "spawnfail"],
    [found |-> TRUE, exit |-> "nonzero"],
    [found |-> TRUE, exit |-> "zero"] }

ghWithInput(o) ==
  IF ~o.found THEN "could not find gh"
  ELSE IF o.exit # "zero" THEN "failed to run gh"
  ELSE "nil"

\* ------------------------------------------------------------------- state
VARIABLES
  pc,       \* position in the running command
  cmd,      \* the subcommand: "none", "set", "clear", "get"
  opts,     \* setOptions handed to runSet
  login,    \* getOptions.Login
  now,      \* runSet's reading of time.Now(), in seconds
  cmdArgs,  \* argument vector built for gh
  emoji,    \* runSet's local emoji, the value sent
  out,      \* captured standard output of the last gh call
  ret,      \* what the command returned: "running", "nil" or an error
  key,      \* apiStatus's key: "user" or "viewer" ("" outside apiStatus)
  value,    \* decoded result handed back by apiStatus / apiTeam
  log       \* side effects in order: gh, ghWithInput, confirm, println

vars == <<pc, cmd, opts, login, now, cmdArgs, emoji, out, ret, key, value, log>>

ZeroOpts == [Message |-> <<>>, Limited |-> FALSE, Expiry |-> 0, Emoji |-> <<>>]

\* one side effect: what was done, with which arguments, whether a process
\* was started, what came back (an error, or the answer of the prompt) and
\* the standard error captured
Event(ev, args, spawned, res, eout) ==
  [ev |-> ev, args |-> args, spawned |-> spawned, res |-> res, eout |-> eout]

Println(text) == Event("println", <<text>>, FALSE, "", <<>>)

Init ==
  /\ pc = "idle"
  /\ cmd = "none"
  /\ opts = ZeroOpts
  /\ login = <<>>
  /\ now = 0
  /\ cmdArgs = <<>>
  /\ emoji = <<>>
  /\ out = JInvalid
  /\ ret = "running"
  /\ key = ""
  /\ value = <<>>
  /\ log = <<>>

\* ------------------------------------------------------------------ runSet
Mutation == <<"mutation($emoji,$message,$limited,$expiry){changeUserStatus{status{message emoji}}}">>

SetLimited(o) == IF o.Limited THEN <<"true">> ELSE <<"false">>

\* variant: a zero duration is given a timestamp too
SetExpiryNonNegative(o, t) == IF o.Expiry >= 0 THEN Format(t + o.Expiry) ELSE <<"null">>


SetExpiry(o, t) == IF o.Expiry > 0 THEN Format(t + o.Expiry) ELSE <<"null">>

SetEmoji(o) == IF o.Emoji # <<>> THEN <<":">> \o o.Emoji \o <<":">> ELSE <<>>

SetCmdArgs(o, t) ==
  << <<"api">>, <<"graphql">>,
     <<"-f">>, <<"query=">> \o Mutation,
     <<"-f">>, <<"message=">> \o o.Message,
     <<"-f">>, <<"emoji=">> \o SetEmoji(o),
     <<"-F">>, <<"limited=">> \o SetLimited(o),
     <<"-F">>, <<"expiry=">> \o SetExpiry(o, t) >>

\* runSet up to its first gh call: the four variables and the argument vector
RunSetBuild(c, o, t) ==
  /\ pc = "idle"
  /\ cmd' = c
  /\ opts' = o
  /\ emoji' = SetEmoji(o)
  /\ now' = t
  /\ cmdArgs' = SetCmdArgs(o, t)
  /\ pc' = "set_gh"
  /\ UNCHANGED <<login, out, ret, key, value, log>>

\* setCmd: the message is never empty here (an empty one is prompted for)
SetCmd ==
  \E m \in Messages \ {<<>>}, e \in Aliases, l \in BOOLEAN, x \in Expiries, t \in Nows :
     RunSetBuild("set", [Message |-> m, Limited |-> l, Expiry |-> x, Emoji |-> e], t)

\* clearCmd
ClearCmd ==
  \E t \in Nows :
     RunSetBuild("clear", [Message |-> <<>>, Limited |-> FALSE, Expiry |-> 0, Emoji |-> <<>>], t)

ScopeReport == <<"! Sorry, this extension requires the 'user' scope.">>

ReauthArgs == << <<"auth">>, <<"refresh">>, <<"-s">>, <<"user">> >>

\* the message runSet prints on success
StatusSet(e, m) == <<"Status set to ">> \o e \o <<" ">> \o m

\* the first gh call of runSet and the test of its error
SetGh ==
  /\ pc = "set_gh"
  /\ \E o \in GhOutcomes(SetDocs) :
       LET r == gh(o)
           called == Append(log, Event("gh", cmdArgs, o.found, r.err, r.eout))
       IN  /\ out' = r.sout
           /\ IF r.err = "nil"
              THEN /\ log' = called
                   /\ pc' = "set_decode"
                   /\ UNCHANGED ret
              ELSE IF ~Contains(r.eout, ScopeMarker)
              THEN /\ ret' = r.err
                   /\ log' = called
                   /\ pc' = "done"
              ELSE /\ log' = Append(called, Println(ScopeReport))
                   /\ pc' = "set_confirm"
                   /\ UNCHANGED ret
  /\ UNCHANGED <<cmd, opts, login, now, cmdArgs, emoji, key, value>>

\* variant: a declined confirmation is reported as an error
SetConfirmDeclineFails ==
  /\ pc = "set_confirm"
  /\ \E asked \in {"error", "no", "yes"} :
       /\ log' = Append(log, Event("confirm", <<>>, FALSE, asked, <<>>))
       /\ CASE asked = "error" -> ret' = "could not prompt" /\ pc' = "done"
            [] asked = "no"    -> ret' = "declined" /\ pc' = "done"
            [] asked = "yes"   -> ret' = ret /\ pc' = "set_reauth"
  /\ UNCHANGED <<cmd, opts, login, now, cmdArgs, emoji, out, key, value>>

\* survey.AskOne(Confirm): the prompt may fail, or answer no or yes
SetConfirm ==
  /\ pc = "set_confirm"
  /\ \E asked \in {"error", "no", "yes"} :
       /\ log' = Append(log, Event("confirm", <<>>, FALSE, asked, <<>>))
       /\ CASE asked = "error" -> ret' = "could not prompt" /\ pc' = "done"
            [] asked = "no"    -> ret' = "nil" /\ pc' = "done"
            [] asked = "yes"   -> ret' = ret /\ pc' = "set_reauth"
  /\ UNCHANGED <<cmd, opts, login, now, cmdArgs, emoji, out, key, value>>

\* variant: the error of the re-authentication is dropped
SetReauthIgnoresError ==
  /\ pc = "set_reauth"
  /\ \E o \in GhInputOutcomes :
       /\ log' = Append(log, Event("ghWithInput", ReauthArgs, o.found, ghWithInput(o), <<>>))
       /\ ret' = ret
       /\ pc' = "set_retry"
  /\ UNCHANGED <<cmd, opts, login, now, cmdArgs, emoji, out, key, value>>

\* ghWithInput("auth", "refresh", "-s", "user")
SetReauth ==
  /\ pc = "set_reauth"
  /\ \E o \in GhInputOutcomes :
       /\ log' = Append(log, Event("ghWithInput", ReauthArgs, o.found, ghWithInput(o), <<>>))
       /\ IF ghWithInput(o) # "nil"
          THEN ret' = ghWithInput(o) /\ pc' = "done"
          ELSE ret' = ret /\ pc' = "set_retry"
  /\ UNCHANGED <<cmd, opts, login, now, cmdArgs, emoji, out, key, value>>

\* variant: a retry that fails with the marker re-enters the recovery
SetRetryLoops ==
  /\ pc = "set_retry"
  /\ \E o \in GhOutcomes(SetDocs) :
       LET r == gh(o)
           called == Append(log, Event("gh", cmdArgs, o.found, r.err, r.eout))
       IN  /\ out' = r.sout
           /\ IF r.err = "nil"
              THEN ret' = ret /\ pc' = "set_decode" /\ log' = called
              ELSE IF ~Contains(r.eout, ScopeMarker)
              THEN ret' = r.err /\ pc' = "done" /\ log' = called
              ELSE /\ log' = Append(called, Println(ScopeReport))
                   /\ pc' = "set_confirm"
                   /\ UNCHANGED ret
  /\ UNCHANGED <<cmd, opts, login, now, cmdArgs, emoji, key, value>>

\* the second gh call of runSet
SetRetry ==
  /\ pc = "set_retry"
  /\ \E o \in GhOutcomes(SetDocs) :
       LET r == gh(o)
       IN  /\ log' = Append(log, Event("gh", cmdArgs, o.found, r.err, r.eout))
           /\ out' = r.sout
           /\ IF r.err # "nil"
              THEN ret' = r.err /\ pc' = "done"
              ELSE ret' = ret /\ pc' = "set_decode"
  /\ UNCHANGED <<cmd, opts, login, now, cmdArgs, emoji, key, value>>

\* variant: the echoed emoji is not compared
SetVerifyUnchecked ==
  /\ pc = "set_decode"
  /\ LET resp == DecodeSetResponse(out)
     IN  IF ~resp.ok
         THEN ret' = "failed to deserialize JSON" /\ UNCHANGED <<log, value>>
         ELSE /\ ret' = "nil"
              /\ value' = value
              /\ log' = Append(log, Println(StatusSet(emoji, opts.Message)))
  /\ pc' = "done"
  /\ UNCHANGED <<cmd, opts, login, now, cmdArgs, emoji, out, key>>

\* the tail of runSet: decode, compare the echoed emoji, print
SetVerify ==
  /\ pc = "set_decode"
  /\ LET resp == DecodeSetResponse(out)
     IN  IF ~resp.ok
         THEN ret' = "failed to deserialize JSON" /\ UNCHANGED <<log, value>>
         ELSE IF resp.val.Emoji # emoji
         THEN ret' = "failed to set status" /\ UNCHANGED <<log, value>>
         ELSE /\ ret' = "nil"
              /\ value' = value
              /\ log' = Append(log, Println(StatusSet(emoji, opts.Message)))
  /\ pc' = "done"
  /\ UNCHANGED <<cmd, opts, login, now, cmdArgs, emoji, out, key>>

\* ------------------------------------------------------------------ runGet
\* responses to the memberStatuses query
Node(i) ==
  JObj([indicatesLimitedAvailability |-> JBool(i % 2 = 0),
        message |-> JStr(<<"hi">>),
        emoji |-> JStr(<<":", "x", ":">>),
        user |-> JObj([login |-> JStr(Digits(i))])])

TeamDoc(nodes) ==
  JObj([data |-> JObj([organization |-> JObj([team |-> JObj([memberStatuses |->
          JObj([nodes |-> nodes])])])])])

RosterSizes == {0, 1, PageSize}

TeamDocs ==
  { JInvalid, JEmptyObj, JStr(<<"x">>),
    JObj([data |-> JNull]),
    JObj([data |-> JObj([organization |-> JNull])]),
    JObj([data |-> JObj([organization |-> JObj([team |-> JNull])])]),
    TeamDoc(JNull),
    TeamDoc(JNum),
    TeamDoc(JArr(<<JNum>>)) }
  \cup { TeamDoc(JArr([i \in 1..n |-> Node(i)])) : n \in RosterSizes }

\* responses to the status query of a user or of the viewer
UserStatusObj ==
  JObj([indicatesLimitedAvailability |-> JBool(TRUE),
        message |-> JStr(<<"hi">>),
        emoji |-> JStr(<<":", "x", ":">>)])

UserDocsFor(k) ==
  { JObj([data |-> JObj(k :> JNull)]),
    JObj([data |-> JObj(k :> JEmptyObj)]),
    JObj([data |-> JObj(k :> JStr(<<"x">>))]),
    JObj([data |-> JObj(k :> JObj([status |-> JNull]))]),
    JObj([data |-> JObj(k :> JObj([status |-> JEmptyObj]))]),
    JObj([data |-> JObj(k :> JObj([status |-> JObj([emoji |-> JNum])]))]),
    JObj([data |-> JObj(k :> JObj([status |-> UserStatusObj]))]) }

UserDocs ==
  { JInvalid, JNull, JEmptyObj, JStr(<<"x">>),
    JObj([data |-> JNull]),
    JObj([data |-> JEmptyObj]),
    JObj([errors |-> JArr(<<JEmptyObj>>)]) }
  \cup UserDocsFor("user") \cup UserDocsFor("viewer")

TeamQuery(org, slug) ==
  <<"query{organization(login:\"">> \o org \o <<"\"){team(slug:\"">> \o slug
    \o <<"\"){memberStatuses(first:">> \o Digits(PageSize)
    \o <<"){nodes{indicatesLimitedAvailability message emoji user{login}}}}}}">>

\* variant: the empty organization is passed on as it is
TeamOrgVerbatim(org) == org

\* apiTeam's substitution for an empty organization
TeamOrg(org) == IF org = <<>> THEN <<"{owner}">> ELSE org

\* the argument vector of apiTeam
TeamArgs(org, slug) ==
  << <<"api">>, <<"graphql">>, <<"-f">>, <<"query=">> \o TeamQuery(TeamOrg(org), slug) >>

\* apiStatus's key and query
StatusKey(l) == IF l = <<>> THEN "viewer" ELSE "user"

StatusQuery(l) ==
  IF l = <<>>
  THEN <<"query{viewer{status{indicatesLimitedAvailability message emoji}}}">>
  ELSE <<"query{user(login:\"">> \o l \o <<"\"){status{indicatesLimitedAvailability message emoji}}}">>

\* the argument vector of apiStatus
StatusArgs(l) == << <<"api">>, <<"graphql">>, <<"-f">>, <<"query=">> \o StatusQuery(l) >>

\* runGet's test
IsTeam(l) == Contains(l, <<"/">>)

\* runGetTeam's arr[0], arr[1]
TeamLogin(l) == Split(l, "/")[1]
TeamSlug(l) == Split(l, "/")[2]

\* getCmd and runGet: route on the login, then build the query of the
\* chosen path (apiTeam or apiStatus up to its gh call)
GetCmd ==
  /\ pc = "idle"
  /\ \E l \in Logins :
       /\ login' = l
       /\ IF IsTeam(l)
          THEN /\ pc' = "team_gh"
               /\ key' = key
               /\ cmdArgs' = TeamArgs(TeamLogin(l), TeamSlug(l))
          ELSE /\ pc' = "user_gh"
               /\ key' = StatusKey(l)
               /\ cmdArgs' = StatusArgs(l)
  /\ cmd' = "get"
  /\ UNCHANGED <<opts, now, emoji, out, ret, value, log>>

\* fmt.Println(em.ReplaceAll(msg)) for each node, in order
TeamLines(nodes) ==
  [i \in 1..Len(nodes) |->
     Println(nodes[i].Login \o <<": ">> \o nodes[i].Emoji \o <<" ">> \o nodes[i].Message \o <<" ">>
               \o (IF nodes[i].IndicatesLimitedAvailability
                   THEN <<"(availability is limited)">> ELSE <<>>))]

\* variant: a full page is followed by the fetch of a next one
ApiTeamNextPage ==
  /\ pc = "team_gh"
  /\ \E o \in GhOutcomes(TeamDocs) :
       LET r == gh(o)
           called == Append(log, Event("gh", cmdArgs, o.found, r.err, r.eout))
           resp == DecodeTeamResponse(r.sout)
       IN  /\ out' = r.sout
           /\ IF r.err # "nil"
              THEN ret' = r.err /\ log' = called /\ value' = value
              ELSE IF ~resp.ok
              THEN ret' = "failed to deserialize JSON" /\ log' = called /\ value' = value
              ELSE /\ ret' = "nil"
                   /\ value' = resp.val
                   /\ log' = (IF Len(resp.val) = PageSize
                              THEN Append(called, Event("gh", cmdArgs, o.found, r.err, r.eout))
                              ELSE called) \o TeamLines(resp.val)
  /\ pc' = "done"
  /\ UNCHANGED <<cmd, opts, login, now, cmdArgs, emoji, key>>

\* apiTeam from its gh call on, and the rest of runGetTeam
ApiTeam ==
  /\ pc = "team_gh"
  /\ \E o \in GhOutcomes(TeamDocs) :
       LET r == gh(o)
           called == Append(log, Event("gh", cmdArgs, o.found, r.err, r.eout))
           resp == DecodeTeamResponse(r.sout)
       IN  /\ out' = r.sout
           /\ IF r.err # "nil"
              THEN ret' = r.err /\ log' = called /\ value' = value
              ELSE IF ~resp.ok
              THEN ret' = "failed to deserialize JSON" /\ log' = called /\ value' = value
              ELSE /\ ret' = "nil"
                   /\ value' = resp.val
                   /\ log' = called \o TeamLines(resp.val)
  /\ pc' = "done"
  /\ UNCHANGED <<cmd, opts, login, now, cmdArgs, emoji, key>>

\* apiStatus from its gh call on, and the rest of runGetUser
ApiStatus ==
  /\ pc = "user_gh"
  /\ \E o \in GhOutcomes(UserDocs) :
       LET r == gh(o)
           called == Append(log, Event("gh", cmdArgs, o.found, r.err, r.eout))
           resp == DecodeStatusMap3(r.sout)
           byKey == MapIndex(MapIndex(resp.val, "data", <<>>), key, <<>>)
           s == MapIndex(byKey, "status", ZeroStatus)
       IN  /\ out' = r.sout
           /\ IF r.err # "nil"
              THEN ret' = r.err /\ log' = called /\ value' = value
              ELSE IF r.sout.kind = "invalid" \/ ~resp.ok
              THEN ret' = "failed to deserialize JSON" /\ log' = called /\ value' = value
              ELSE IF ~MapHas(byKey, "status")
              THEN ret' = "failed to deserialize JSON" /\ log' = called /\ value' = value
              ELSE /\ ret' = "nil"
                   /\ value' = s
                   /\ log' = Append(called,
                               Println(s.Emoji \o <<" ">> \o s.Message \o <<" ">>
                                         \o (IF s.IndicatesLimitedAvailability
                                             THEN <<"(availability is limited)">> ELSE <<>>)))
  /\ pc' = "done"
  /\ UNCHANGED <<cmd, opts, login, now, cmdArgs, emoji, key>>

Next ==
  \/ SetCmd
  \/ ClearCmd
  \/ SetGh
  \/ SetConfirm
  \/ SetReauth
  \/ SetRetry
  \/ SetVerify
  \/ GetCmd
  \/ ApiTeam
  \/ ApiStatus

Spec == Init /\ [][Next]_vars

\* ============================================================ properties
\* ----------------------------------------------------------- observations
Idx(ev) == {i \in DOMAIN log : log[i].ev = ev}
GhCalls == Cardinality(Idx("gh"))
Reauths == Cardinality(Idx("ghWithInput"))
Confirms == Cardinality(Idx("confirm"))
IsSetRun == cmd \in {"set", "clear"}
Done == pc = "done"

FirstFailed == Len(log) >= 1 /\ log[1].ev = "gh" /\ log[1].res # "nil"
FirstFailedWithMarker == FirstFailed /\ log[1].eout = MarkerStderr
Accepted == \E i \in Idx("confirm") : log[i].res = "yes"
Declined == \E i \in Idx("confirm") : log[i].res = "no"
PromptFailed == \E i \in Idx("confirm") : log[i].res = "error"
ReauthOK == \E i \in Idx("ghWithInput") : log[i].res = "nil"
ReauthFailed == \E i \in Idx("ghWithInput") : log[i].res # "nil"
IsReport(e) == e.ev = "println" /\ e.args = <<ScopeReport>>
PrintedStatusSet == \E i \in Idx("println") : log[i].args[1][1] = "Status set to "

\* the last capturing invocation of the run returned without error
LastGhOK == \E i \in Idx("gh") : log[i].res = "nil" /\ \A j \in Idx("gh") : j <= i

\* the value of the mutation variable at position i of the argument vector
ArgValue(i) == Tail(cmdArgs[i])

\* ------------------------------------------------------------------- C1
\* C1 as stated: once the first mutation failed with the missing-scope
\* marker and the user accepted, a finished run has re-authenticated exactly
\* once and re-invoked the mutation exactly once with the same arguments.
C1_AcceptAlwaysRetries ==
  (IsSetRun /\ Done /\ FirstFailedWithMarker /\ Accepted) =>
     /\ Reauths = 1
     /\ GhCalls = 2
     /\ \A i \in Idx("gh") : log[i].args = log[1].args

\* C1 amended: after a first failure with the marker and an acceptance, the
\* run prompts once and re-authenticates (auth refresh -s user) exactly
\* once; if the re-authentication succeeds the mutation is re-invoked exactly
\* once, after it, with the identical argument vector, and a failure of that
\* second invocation ends the run with its error, nothing following it; if
\* the re-authentication fails the mutation is not re-invoked.
C1_RetryOnceAfterReauth ==
  (IsSetRun /\ FirstFailedWithMarker /\ Accepted) =>
     /\ Confirms = 1
     /\ Reauths <= 1
     /\ GhCalls <= 2
     /\ \A i \in Idx("ghWithInput") : log[i].args = ReauthArgs
     /\ \A i \in Idx("gh") : log[i].args = log[1].args
     /\ \A i \in Idx("gh") : i > 1 =>
          /\ \E j \in Idx("ghWithInput") : j < i /\ log[j].res = "nil"
          /\ log[i].res # "nil" => Done /\ ret = log[i].res /\ i = Len(log)
     /\ Done =>
          /\ Reauths = 1
          /\ ReauthOK => GhCalls = 2
          /\ ReauthFailed => GhCalls = 1 /\ ret # "nil"

\* the retry failed again with the marker and the run ended there
C1_Witness ==
  /\ IsSetRun /\ Done /\ FirstFailedWithMarker /\ Accepted
  /\ GhCalls = 2
  /\ log[Len(log)].ev = "gh"
  /\ log[Len(log)].eout = MarkerStderr
  /\ ret = "failed to run gh"

\* ------------------------------------------------------------------- C2
\* C2: a first failure with the marker followed by a declined confirmation
\* ends the run with success and nothing after the prompt: one invocation,
\* no re-authentication, no "Status set" line.
C2_DeclineIsSuccess ==
  (IsSetRun /\ FirstFailedWithMarker /\ Declined) =>
     /\ Done
     /\ ret = "nil"
     /\ Len(log) = 3
     /\ log[3].ev = "confirm"
     /\ GhCalls = 1
     /\ Reauths = 0
     /\ ~PrintedStatusSet

C2_Witness == IsSetRun /\ FirstFailedWithMarker /\ Declined /\ Done

\* ------------------------------------------------------------------- C3
\* C3: when the last invocation of a set/clear run succeeded and its output
\* decodes, the run fails with the verification error if the echoed emoji
\* differs from the emoji sent, and prints "Status set" and succeeds only if
\* they are equal.
C3_EchoVerified ==
  (IsSetRun /\ Done /\ LastGhOK /\ DecodeSetResponse(out).ok) =>
     LET echoed == DecodeSetResponse(out).val.Emoji
         sent   == ArgValue(8)
     IN  /\ echoed # sent => ret = "failed to set status" /\ ~PrintedStatusSet
         /\ echoed = sent =>
              /\ ret = "nil"
              /\ log[Len(log)] = Println(StatusSet(sent, opts.Message))

\* a retry that succeeded at the process layer but echoed another emoji
C3_Witness ==
  /\ IsSetRun /\ Done /\ LastGhOK /\ GhCalls = 2
  /\ DecodeSetResponse(out).ok
  /\ DecodeSetResponse(out).val.Emoji = <<":", "x", ":">>
  /\ ArgValue(8) = <<":", "rocket", ":">>
  /\ ret = "failed to set status"

\* ------------------------------------------------------------------- C4
RecoveryEntered ==
  \/ \E i \in DOMAIN log : log[i].ev \in {"confirm", "ghWithInput"} \/ IsReport(log[i])
  \/ GhCalls >= 2

\* C4: the recovery path is entered only in set/clear and only after a
\* failed invocation carrying the marker; every other invoker failure is
\* returned as the error of the run, with that one invocation as its only
\* effect.
C4_RecoveryOnlyOnMarker ==
  /\ RecoveryEntered => IsSetRun /\ FirstFailedWithMarker
  /\ (Done /\ FirstFailed /\ ~(IsSetRun /\ log[1].eout = MarkerStderr)) =>
        /\ ret = log[1].res
        /\ Len(log) = 1

\* a get whose invocation failed with the marker on its standard error
C4_Witness ==
  /\ cmd = "get" /\ Done /\ FirstFailedWithMarker
  /\ ret = "failed to run gh"

\* ------------------------------------------------------------------- C5
HasSlash(l) == \E i \in 1..Len(l) : l[i] = "/"
FirstSlash(l) == CHOOSE i \in 1..Len(l) : l[i] = "/" /\ \A j \in 1..(i - 1) : l[j] # "/"
\* the text before the first separator, and all the text after it
LeftPart(l) == SubSeq(l, 1, FirstSlash(l) - 1)
RightPart(l) == SubSeq(l, FirstSlash(l) + 1, Len(l))
\* the text between the first separator and the next one (or the end)
SecondPart(l) ==
  LET r == RightPart(l)
  IN  IF HasSlash(r) THEN SubSeq(r, 1, FirstSlash(r) - 1) ELSE r

UserRouted ==
  /\ key = (IF login = <<>> THEN "viewer" ELSE "user")
  /\ cmdArgs = << <<"api">>, <<"graphql">>, <<"-f">>,
                  IF login = <<>>
                  THEN <<"query=", "query{viewer{status{indicatesLimitedAvailability message emoji}}}">>
                  ELSE <<"query=", "query{user(login:\"">> \o login
                         \o <<"\"){status{indicatesLimitedAvailability message emoji}}}">> >>
  /\ \A k \in {"user", "viewer"} :
        (Done /\ ~FirstFailed /\ out = JObj([data |-> JObj(k :> JObj([status |-> UserStatusObj]))]))
          => (ret = "nil" <=> k = (IF login = <<>> THEN "viewer" ELSE "user"))

TeamRouted(org, slug) ==
  /\ key = ""
  /\ cmdArgs = << <<"api">>, <<"graphql">>, <<"-f">>,
                  <<"query=">> \o TeamQuery(IF org = <<>> THEN <<"{owner}">> ELSE org, slug) >>

\* C5 as stated: a login with a separator goes to the team query with its
\* left part as organization and its right part as slug.
C5_RightPartIsSlug ==
  (cmd = "get" /\ HasSlash(login)) => TeamRouted(LeftPart(login), RightPart(login))

\* C5 amended: every login with a '/' goes to the team query, the text
\* before the first '/' as organization ("{owner}" when empty) and the text
\* between the first and the second '/' (or the end) as slug, anything after
\* a second '/' being dropped; every other login goes to the single-user
\* query, 'viewer' shape and key for the empty login, 'user' with the login
\* as filter otherwise.
C5_RouteByLogin ==
  cmd = "get" =>
     IF HasSlash(login)
     THEN TeamRouted(LeftPart(login), SecondPart(login))
     ELSE UserRouted

\* a team login with an empty organization and a second separator
C5_Witness ==
  /\ cmd = "get" /\ Done
  /\ login = <<"/", "a", "/", "a">>
  /\ cmdArgs[4][3] = "{owner}"

\* ------------------------------------------------------------------- C6
RECURSIVE HasPath(_, _)
\* the document has an object at every key of the path
HasPath(doc, path) ==
  IF path = <<>> THEN doc.kind = "obj"
  ELSE /\ doc.kind = "obj"
       /\ Head(path) \in DOMAIN doc.mem
       /\ HasPath(doc.mem[Head(path)], Tail(path))

UserRun == cmd = "get" /\ ~HasSlash(login)
TeamRun == cmd = "get" /\ HasSlash(login)

\* C6: a single-user read whose response has no status object under
\* data.<key> (data, the key or the status missing or null) fails with the
\* decode error.
C6_MissingStatusIsError ==
  (UserRun /\ Done /\ ~FirstFailed /\ ~HasPath(out, <<"data", key, "status">>))
     => ret = "failed to deserialize JSON"

\* ------------------------------------------------------------------- C7
RECURSIVE HasKeys(_, _)
\* every key of the path is in the document, whatever the last one holds
HasKeys(doc, path) ==
  IF path = <<>> THEN TRUE
  ELSE /\ doc.kind = "obj"
       /\ Head(path) \in DOMAIN doc.mem
       /\ HasKeys(doc.mem[Head(path)], Tail(path))

\* the path the running operation reads its result from
ExpectedPath ==
  IF IsSetRun THEN <<"data", "changeUserStatus", "status", "emoji">>
  ELSE IF TeamRun THEN <<"data", "organization", "team", "memberStatuses", "nodes">>
  ELSE <<"data", key, "status">>

\* C7: in every operation, a response obtained without invoker error in
\* which the expected path is absent ends the run with an error.
C7_AbsentPathIsError ==
  (Done /\ LastGhOK /\ out.kind # "invalid" /\ ~HasKeys(out, ExpectedPath)) => ret # "nil"

\* ------------------------------------------------------------------- C8
ClearArgs ==
  << <<"api">>, <<"graphql">>,
     <<"-f">>, <<"query=">> \o Mutation,
     <<"-f">>, <<"message=">>,
     <<"-f">>, <<"emoji=">>,
     <<"-F">>, <<"limited=", "false">>,
     <<"-F">>, <<"expiry=", "null">> >>

\* C8: the four variables of the mutation are a fixed function of the
\* request: message verbatim, emoji ':alias:' or empty, limited 'true' or
\* 'false', expiry 'null' for a duration that is not positive and the
\* timestamp of now + duration otherwise; clear sends the all-empty request;
\* and this vector is what every invocation of the run is given.
C8_MutationVariables ==
  IsSetRun =>
     /\ Len(cmdArgs) = 12
     /\ <<cmdArgs[5], cmdArgs[7], cmdArgs[9], cmdArgs[11]>> = << <<"-f">>, <<"-f">>, <<"-F">>, <<"-F">> >>
     /\ cmdArgs[6] = <<"message=">> \o opts.Message
     /\ cmdArgs[8] = (IF opts.Emoji = <<>> THEN <<"emoji=">>
                      ELSE <<"emoji=", ":">> \o opts.Emoji \o <<":">>)
     /\ opts.Emoji = <<"rocket">> => cmdArgs[8] = <<"emoji=", ":", "rocket", ":">>
     /\ cmdArgs[10] = (IF opts.Limited THEN <<"limited=", "true">> ELSE <<"limited=", "false">>)
     /\ cmdArgs[12] = (IF opts.Expiry <= 0 THEN <<"expiry=", "null">>
                       ELSE <<"expiry=">> \o Format(now + opts.Expiry))
     /\ (opts.Expiry = 1 /\ now = 1) => cmdArgs[12] = <<"expiry=", "T", "2">>
     /\ cmd = "clear" => cmdArgs = ClearArgs
     /\ opts = ZeroOpts => cmdArgs = ClearArgs
     /\ \A i \in Idx("gh") : log[i].args = cmdArgs

\* a set with an alias, the limited flag and a positive duration, invoked
C8_Witness ==
  /\ cmd = "set" /\ GhCalls >= 1
  /\ opts.Emoji = <<"rocket">> /\ opts.Limited /\ opts.Expiry = 1 /\ now = 1

\* ------------------------------------------------------------------- C9
\* C9: a get makes exactly one capturing invocation whatever comes back (a
\* roster of PageSize members included) and never re-authenticates; a
\* set/clear makes one on the normal path and at most two, the original and
\* one retry, on the recovery path.
C9_BoundedInvocations ==
  /\ GhCalls <= 2
  /\ Cardinality({i \in DOMAIN log : log[i].spawned}) <= GhCalls + Reauths
  /\ cmd = "get" => GhCalls <= 1 /\ Reauths = 0
  /\ Done => GhCalls >= 1
  /\ GhCalls = 2 => IsSetRun /\ FirstFailedWithMarker /\ Accepted /\ ReauthOK
  /\ (IsSetRun /\ Done /\ ~FirstFailedWithMarker) => GhCalls = 1

\* a roster of exactly PageSize members was returned and printed
C9_Witness ==
  /\ TeamRun /\ Done /\ ret = "nil"
  /\ Len(value) = PageSize
  /\ GhCalls = 1
  /\ Len(log) = PageSize + 1

\* ------------------------------------------------------------------ C10
\* C10: in the recovery path each step follows the one that allows it: the
\* prompt comes right after the report, which comes right after the failed
\* first invocation; the re-authentication right after an accepting prompt;
\* the retry right after a successful re-authentication; and a failed
\* prompt or re-authentication ends the run with an error, no retry and no
\* "Status set" line.
C10_RecoveryOrdered ==
  /\ \A i \in DOMAIN log : IsReport(log[i]) => i = 2 /\ FirstFailedWithMarker
  /\ \A i \in Idx("confirm") : i = 3 /\ IsReport(log[2])
  /\ \A i \in Idx("ghWithInput") : i = 4 /\ log[3].ev = "confirm" /\ log[3].res = "yes"
  /\ \A i \in Idx("gh") : i > 1 => i = 5 /\ log[4].ev = "ghWithInput" /\ log[4].res = "nil"
  /\ (PromptFailed \/ ReauthFailed) =>
        /\ Done
        /\ ret # "nil"
        /\ GhCalls = 1
        /\ ~PrintedStatusSet
  /\ PromptFailed => ret = "could not prompt" /\ Reauths = 0

\* the re-authentication failed after an acceptance
C10_Witness ==
  /\ IsSetRun /\ Done /\ Accepted /\ ReauthFailed
  /\ ret = "could not find gh"

====
